---- MODULE Spec2Model ----
(***************************************************************************)
(* Clipboard capture and history store of Paste-Fork.                      *)
(*                                                                         *)
(* Two execution contexts share one SQLite connection behind a Mutex       *)
(* (backend/clipboard.rs, DB_CONN): the monitor thread that runs           *)
(* Handler::on_clipboard_change for every clipboard change, and the UI     *)
(* context that calls the public query functions, update_timestamp and     *)
(* do_paste (main.rs).  The environment copies content to the clipboard,   *)
(* switches the focused application and advances the wall clock.           *)
(***************************************************************************)
EXTENDS Integers, Sequences, FiniteSets, TLC

(***************************************************************************)
(* Bounds of the model.                                                    *)
(***************************************************************************)
MaxTime == 1          \* the wall clock runs over the seconds 0..MaxTime
MaxLimit == 1         \* largest LIMIT argument given to get_recent_records
MaxId == 3            \* largest id given to update_timestamp

(***************************************************************************)
(* Program constants.                                                      *)
(***************************************************************************)
BytesPerPixel == 4    \* Rgba<u8>

\* Application names are character sequences, so that `contains' is a
\* substring test.
Code == <<"C", "o", "d", "e">>
Notes == <<"N", "o", "t", "e", "s">>
Bitwarden == <<"B", "i", "t", "w", "a", "r", "d", "e", "n">>
Passwords == <<"P", "a", "s", "s", "w", "o", "r", "d", "s">>
KeychainAccess ==
  <<"K", "e", "y", "c", "h", "a", "i", "n", " ", "A", "c", "c", "e", "s", "s">>

IGNORED_APPS == {Passwords, KeychainAccess, Bitwarden}

\* Applications that can be frontmost when the program asks.
FocusApps == {Code, Notes, Bitwarden}
FocusAppsSerial == {Code, Bitwarden}

\* Applications that can be frontmost when the handler asks: also a name
\* that has a deny-listed name inside it, and a deny-listed name in lower case.
BitwardenHelper == Bitwarden \o <<" ", "H", "e", "l", "p", "e", "r">>
bitwarden == <<"b", "i", "t", "w", "a", "r", "d", "e", "n">>
HandlerFocusApps == FocusApps \cup {BitwardenHelper, bitwarden}
HandlerFocusAppsSerial == FocusAppsSerial \cup {BitwardenHelper, bitwarden}

\* Texts the user can copy.
Texts == { <<"a", "b">> }
TextsSerial == { <<"a", "b">>, <<"A">> }

\* Raw images the environment can copy: a 1x1 RGBA buffer.
GoodImage == [width |-> 1, height |-> 1, bytes |-> <<"p", "q", "r", "s">>]
RawImages == {GoodImage}

NoContent == [kind |-> "none"]
TextClip(t) == [kind |-> "text", text |-> t]
ImageClip(i) == [kind |-> "image", image |-> i]
ClipContents == {TextClip(t) : t \in Texts} \cup {ImageClip(i) : i \in RawImages}
                  \cup {NoContent}
ClipContentsSerial == ClipContents \cup {TextClip(t) : t \in TextsSerial}

\* A clipboard that offers a text and an image at once, and the results of
\* get_text() and get_image() on a clipboard content.
TextImageClip(t, i) == [kind |-> "both", text |-> t, image |-> i]
HasText(clip) == clip.kind \in {"text", "both"}
HasImage(clip) == clip.kind \in {"image", "both"}

\* Raw images that cannot be encoded: a buffer shorter than width * height * 4
\* bytes, and an image without pixels.
ShortImage == [width |-> 1, height |-> 2, bytes |-> <<"p", "q", "r", "s">>]
EmptyImage == [width |-> 0, height |-> 0, bytes |-> <<>>]

\* Clipboard contents of the capture specification.
ClipContentsCapture ==
  {TextImageClip(<<"c">>, GoodImage), ImageClip(ShortImage), ImageClip(EmptyImage),
   NoContent}

\* Arguments the UI context passes to the store's public functions.
Terms == { <<"a">> }
TermsSerial == { <<"a">>, <<"_">>, <<"P">> }
Limits == {MaxLimit}
LimitsSerial == (0 - 1) .. MaxLimit

(***************************************************************************)
(* Sequence helpers.                                                       *)
(***************************************************************************)
Min(a, b) == IF a <= b THEN a ELSE b

SetMax(S) == CHOOSE x \in S : \A y \in S : y <= x

\* str.contains(pat): pat occurs in s as a contiguous subsequence.
Contains(s, pat) ==
  \E i \in 1 .. (Len(s) - Len(pat) + 1) : SubSeq(s, i, i + Len(pat) - 1) = pat

Take(s, n) == SubSeq(s, 1, Min(n, Len(s)))

(***************************************************************************)
(* SQLite values.  A value bound from &str is stored with type TEXT, a     *)
(* value bound from Vec<u8> with type BLOB; the `content' column has BLOB  *)
(* affinity, which converts neither.  `=' is type- and byte-exact.         *)
(***************************************************************************)
SqlText(s) == [t |-> "text", v |-> s]
SqlBlob(b) == [t |-> "blob", v |-> b]

\* ASCII case folding used by LIKE.
Lower(c) == CASE c = "A" -> "a"
              [] c = "B" -> "b"
              [] c = "P" -> "p"
              [] OTHER -> c

\* SQLite's LIKE without ESCAPE: `%' matches any run of characters, `_'
\* matches exactly one character, everything else matches itself up to ASCII
\* case.
RECURSIVE LikeMatch(_, _)
LikeMatch(pat, s) ==
  IF pat = <<>> THEN s = <<>>
  ELSE IF Head(pat) = "%"
       THEN \E k \in 0 .. Len(s) : LikeMatch(Tail(pat), SubSeq(s, k + 1, Len(s)))
       ELSE /\ s # <<>>
            /\ \/ Head(pat) = "_"
               \/ Lower(Head(pat)) = Lower(Head(s))
            /\ LikeMatch(Tail(pat), Tail(s))

(***************************************************************************)
(* Content codec.                                                          *)
(***************************************************************************)
DimStr(n) == CASE n = 0 -> "0" [] n = 1 -> "1" [] OTHER -> "2"

\* Variant: a buffer that cannot be encoded is stored as it is.
PngBytesKeepRaw(img) ==
  LET need == img.width * img.height * BytesPerPixel
  IN  IF Len(img.bytes) < need THEN img.bytes
      ELSE IF img.width = 0 \/ img.height = 0 THEN img.bytes
      ELSE <<"P", "N", "G", DimStr(img.width), DimStr(img.height)>>
             \o SubSeq(img.bytes, 1, need)

\* ImageBuffer::from_raw accepts a buffer that holds at least
\* width * height * 4 bytes; the PNG encoder rejects an empty image.  The
\* encoded bytes begin with the PNG signature and determine width, height and
\* the pixels of the image.  A failure yields the empty byte vector.
PngBytes(img) ==
  LET need == img.width * img.height * BytesPerPixel
  IN  IF Len(img.bytes) < need THEN <<>>
      ELSE IF img.width = 0 \/ img.height = 0 THEN <<>>
      ELSE <<"P", "N", "G", DimStr(img.width), DimStr(img.height)>>
             \o SubSeq(img.bytes, 1, need)

(***************************************************************************)
(* The history table.  A row is a record                                   *)
(*   [id, source_app, icon_path, content_type, content, timestamp];        *)
(* the table is the set of its rows.                                       *)
(***************************************************************************)
Ids(tbl) == {r.id : r \in tbl}

\* Variant: the largest rowid is handed out again.
NextRowidReuse(tbl) == IF tbl = {} THEN 1 ELSE SetMax(Ids(tbl))

\* INTEGER PRIMARY KEY without AUTOINCREMENT: the new rowid is one more than
\* the largest rowid in the table, 1 for an empty table.
NextRowid(tbl) == IF tbl = {} THEN 1 ELSE SetMax(Ids(tbl)) + 1

\* current_exe().parent().join(format!("{}.png", name))
IconPathOf(app) == app \o <<".", "p", "n", "g">>

\* Variant: the WHERE clause of save_text copied into save_image unchanged.
MatchIdentityTextOnly(tbl, ctype, content) ==
  {r \in tbl : r.content_type = "TEXT" /\ r.content = content}

\* WHERE content_type = ?type AND content = ?3
MatchIdentity(tbl, ctype, content) ==
  {r \in tbl : r.content_type = ctype /\ r.content = content}

\* Variant: the UPDATE refreshes the timestamp only.
UpsertUpdateTimestampOnly(tbl, ctype, content, app, icon, ts) ==
  {IF r.content_type = ctype /\ r.content = content
     THEN [r EXCEPT !.timestamp = ts]
     ELSE r : r \in tbl}

\* UPDATE history SET timestamp = DATETIME('NOW','UTC'), source_app = ?1,
\*   icon_path = ?2 WHERE content_type = .. AND content = ?3
UpsertUpdate(tbl, ctype, content, app, icon, ts) ==
  {IF r \in MatchIdentity(tbl, ctype, content)
     THEN [r EXCEPT !.timestamp = ts, !.source_app = app, !.icon_path = icon]
     ELSE r : r \in tbl}

\* INSERT INTO history (source_app, icon_path, content_type, content)
\*   VALUES (?1, ?2, .., ?3); timestamp takes its DEFAULT.
UpsertInsert(tbl, ctype, content, app, icon, ts) ==
  tbl \cup {[id |-> NextRowid(tbl), source_app |-> app, icon_path |-> icon,
             content_type |-> ctype, content |-> content, timestamp |-> ts]}

\* Variant: the UPDATE writes the epoch instead of the current time.
TouchUpdateEpoch(tbl, id, ts) ==
  {IF r.id = id THEN [r EXCEPT !.timestamp = 0] ELSE r : r \in tbl}

\* UPDATE history SET timestamp = DATETIME('NOW','UTC') WHERE id = ?1
TouchUpdate(tbl, id, ts) ==
  {IF r.id = id THEN [r EXCEPT !.timestamp = ts] ELSE r : r \in tbl}

\* row_to_item: the content of an IMAGE row is base64-encoded, the content of
\* a TEXT row is decoded as UTF-8.
Base64(bytes) == <<"b64">> \o bytes

ContentTypes(ctype) == CASE ctype = "IMAGE" -> "IMAGE"
                         [] ctype = "TEXT" -> "TEXT"
                         [] OTHER -> "unreachable"

row_to_item(r) ==
  [id |-> r.id, source_app |-> r.source_app, icon_path |-> r.icon_path,
   content_type |-> ContentTypes(r.content_type),
   content |-> IF ContentTypes(r.content_type) = "IMAGE"
                 THEN Base64(r.content.v) ELSE r.content.v,
   timestamp |-> r.timestamp]

\* Variant: ORDER BY timestamp ASC.
BeforeAscending(r1, r2) ==
  \/ r1.timestamp < r2.timestamp
  \/ r1.timestamp = r2.timestamp /\ r1.id < r2.id

\* ORDER BY timestamp DESC over a scan of the table in rowid order: rows with
\* equal timestamps keep their rowid order.
Before(r1, r2) ==
  \/ r1.timestamp > r2.timestamp
  \/ r1.timestamp = r2.timestamp /\ r1.id < r2.id

RECURSIVE OrderByTimestampDesc(_)
OrderByTimestampDesc(rowset) ==
  IF rowset = {} THEN <<>>
  ELSE LET first == CHOOSE r \in rowset : \A q \in rowset \ {r} : Before(r, q)
       IN  <<first>> \o OrderByTimestampDesc(rowset \ {first})

MapItems(rowseq) == [i \in 1 .. Len(rowseq) |-> row_to_item(rowseq[i])]

\* Variant: the LIMIT clause is missing.
SqlLimitMissing(rowseq, limit) == rowseq

\* LIMIT ?1: a negative limit means no limit.
SqlLimit(rowseq, limit) ==
  IF limit < 0 THEN rowseq ELSE Take(rowseq, limit)

\* SELECT .. FROM history ORDER BY timestamp DESC
SelectAll(tbl) == MapItems(OrderByTimestampDesc(tbl))

\* SELECT .. FROM history ORDER BY timestamp DESC LIMIT ?1
SelectRecent(tbl, limit) == MapItems(SqlLimit(OrderByTimestampDesc(tbl), limit))

\* format!("%{}%", term)
LikePattern(term) == <<"%">> \o term \o <<"%">>

\* Variant: the WHERE clause does not test content_type.
SearchWhereAnyType(r, pattern) == LikeMatch(pattern, r.content.v)

\* WHERE content_type = 'TEXT' AND content LIKE ?1
SearchWhere(r, pattern) ==
  r.content_type = "TEXT" /\ LikeMatch(pattern, r.content.v)

\* SELECT .. FROM history WHERE content_type = 'TEXT' AND content LIKE ?1
\*   ORDER BY timestamp DESC
SelectSearch(tbl, term) ==
  MapItems(OrderByTimestampDesc({r \in tbl : SearchWhere(r, LikePattern(term))}))

(***************************************************************************)
(* State.                                                                  *)
(***************************************************************************)
VARIABLES
  history,            \* rows of the history table
  db_lock,            \* holder of the DB_CONN mutex: "none", "monitor", "ui";
                      \* "poisoned" once a holder has panicked
  IS_INTERNAL_PASTE,  \* the loop-prevention flag
  now,                \* wall clock in seconds, as DATETIME('NOW') reads it
  clipboard,          \* content of the system clipboard
  changed,            \* a clipboard change the monitor has not yet handled
  change_by,          \* who made the changes the monitor has not yet handled
  pc_m,               \* position of the monitor thread
  m_clip,             \* content the handler read from the clipboard
  m_ctx,              \* save_*: source_app and icon_path
  m_rows,             \* save_*: rows the UPDATE affected
  pc_u,               \* position of the UI context
  u_req,              \* the store call the UI context is making
  u_item,             \* do_paste: the item being replayed
  u_result,           \* records the store call has returned
  u_ret,              \* "Ok" when the store call has returned Ok
  rx                  \* signals waiting in the notification channel

vars == <<history, db_lock, IS_INTERNAL_PASTE, now, clipboard, changed,
          change_by, pc_m, m_clip, m_ctx, m_rows, pc_u, u_req, u_item, u_result, u_ret,
          rx>>

envVars == <<now, clipboard, changed, change_by>>
monVars == <<pc_m, m_clip, m_ctx, m_rows>>
uiVars == <<pc_u, u_req, u_item, u_result, u_ret, rx>>

NoCtx == [source_app |-> <<>>, icon_path |-> <<>>]
NoReq == [op |-> "none"]
NoItem == [id |-> 0]

Requests(limits, terms) ==
  {[op |-> "get_all_records"]}
    \cup {[op |-> "get_recent_records", limit |-> l] : l \in limits}
    \cup {[op |-> "search_text", term |-> t] : t \in terms}
    \cup {[op |-> "update_timestamp", id |-> i] : i \in 1 .. MaxId}

UiRequests == Requests(Limits, Terms)
UiRequestsSerial == Requests(LimitsSerial, TermsSerial)

Init ==
  /\ history = {}
  /\ db_lock = "none"
  /\ IS_INTERNAL_PASTE = FALSE
  /\ now = 0
  /\ clipboard = NoContent
  /\ changed = FALSE
  /\ change_by = {}
  /\ pc_m = "wait"
  /\ m_clip = NoContent
  /\ m_ctx = NoCtx
  /\ m_rows = 0
  /\ pc_u = "idle"
  /\ u_req = NoReq
  /\ u_item = NoItem
  /\ u_result = <<>>
  /\ u_ret = "none"
  /\ rx = 0

(***************************************************************************)
(* Environment.  The frontmost application is not kept as state: it can    *)
(* change between any two steps, so each call of current_focus_app_name    *)
(* may see any application.                                                *)
(***************************************************************************)
\* The user copies something in some application.
Copy(c) ==
  /\ clipboard' = c
  /\ changed' = TRUE
  /\ change_by' = change_by \cup {"user"}
  /\ UNCHANGED <<history, db_lock, IS_INTERNAL_PASTE, now, monVars, uiVars>>

\* A second passes.  DATETIME('NOW','UTC') is taken to follow a wall clock
\* that does not run backwards.
Tick ==
  /\ now < MaxTime
  /\ now' = now + 1
  /\ UNCHANGED <<history, db_lock, IS_INTERNAL_PASTE, clipboard, changed,
                 change_by, monVars, uiVars>>

(***************************************************************************)
(* Monitor thread: Handler::on_clipboard_change, save_text, save_image.    *)
(***************************************************************************)
IsIgnoredNone(current_focus_app) == FALSE

IsIgnored(current_focus_app) ==
  \E ignored_app \in IGNORED_APPS : Contains(current_focus_app, ignored_app)

\* The handler without its first statement: the flag is cleared and the
\* handler goes on whatever the flag was.
on_clipboard_change_NoReturn ==
  /\ pc_m = "wait"
  /\ changed
  /\ changed' = FALSE
  /\ change_by' = {}
  /\ IS_INTERNAL_PASTE' = FALSE
  /\ pc_m' = "focus"
  /\ UNCHANGED <<history, db_lock, now, clipboard, m_clip, m_ctx, m_rows, uiVars>>

\* The handler is entered for a clipboard change and swaps the flag to false;
\* a set flag ends the handler.
on_clipboard_change ==
  /\ pc_m = "wait"
  /\ changed
  /\ changed' = FALSE
  /\ change_by' = {}
  /\ IS_INTERNAL_PASTE' = FALSE
  /\ pc_m' = IF IS_INTERNAL_PASTE THEN "wait" ELSE "focus"
  /\ UNCHANGED <<history, db_lock, now, clipboard, m_clip, m_ctx, m_rows, uiVars>>

\* Variant: a deny-listed name makes the handler return CallbackResult::Stop.
check_ignored_apps_Stop(current_focus_app) ==
  /\ pc_m = "focus"
  /\ pc_m' = IF IsIgnored(current_focus_app) THEN "stopped" ELSE "read"
  /\ UNCHANGED <<history, db_lock, IS_INTERNAL_PASTE, envVars, m_clip, m_ctx,
                 m_rows, uiVars>>

\* let current_focus_app = current_focus_app_name(); a name that contains an
\* entry of IGNORED_APPS ends the handler.
check_ignored_apps(current_focus_app) ==
  /\ pc_m = "focus"
  /\ pc_m' = IF IsIgnored(current_focus_app) THEN "wait" ELSE "read"
  /\ UNCHANGED <<history, db_lock, IS_INTERNAL_PASTE, envVars, m_clip, m_ctx,
                 m_rows, uiVars>>

\* Variant: get_image() is tried before get_text().
read_clipboard_ImageFirst ==
  /\ pc_m = "read"
  /\ IF HasImage(clipboard)
       THEN /\ pc_m' = "db_conn"
            /\ m_clip' = ImageClip(clipboard.image)
       ELSE IF HasText(clipboard)
         THEN /\ pc_m' = "db_conn"
              /\ m_clip' = TextClip(clipboard.text)
         ELSE /\ pc_m' = "wait"
              /\ m_clip' = NoContent
  /\ UNCHANGED <<history, db_lock, IS_INTERNAL_PASTE, envVars, m_ctx, m_rows,
                 uiVars>>

\* get_text(), else get_image(), else nothing to save.
read_clipboard ==
  /\ pc_m = "read"
  /\ IF HasText(clipboard)
       THEN /\ pc_m' = "db_conn"
            /\ m_clip' = TextClip(clipboard.text)
       ELSE IF HasImage(clipboard)
         THEN /\ pc_m' = "db_conn"
              /\ m_clip' = ImageClip(clipboard.image)
         ELSE /\ pc_m' = "wait"
              /\ m_clip' = NoContent
  /\ UNCHANGED <<history, db_lock, IS_INTERNAL_PASTE, envVars, m_ctx, m_rows,
                 uiVars>>

\* get_clipboard() returns None (Clipboard::new() has failed), or get_text()
\* and get_image() both return Err: the handler returns with nothing saved.
read_clipboard_Err ==
  /\ pc_m = "read"
  /\ pc_m' = "wait"
  /\ m_clip' = NoContent
  /\ UNCHANGED <<history, db_lock, IS_INTERNAL_PASTE, envVars, m_ctx, m_rows,
                 uiVars>>

\* save_text / save_image on a connection that no mutex guards.
save_db_conn_NoMutex ==
  /\ pc_m = "db_conn"
  /\ db_lock' = "monitor"
  /\ pc_m' = "focus_context"
  /\ UNCHANGED <<history, IS_INTERNAL_PASTE, envVars, m_clip, m_ctx, m_rows, uiVars>>

\* save_text / save_image: let conn = db_conn();
save_db_conn ==
  /\ pc_m = "db_conn"
  /\ db_lock = "none"
  /\ db_lock' = "monitor"
  /\ pc_m' = "focus_context"
  /\ UNCHANGED <<history, IS_INTERNAL_PASTE, envVars, m_clip, m_ctx, m_rows, uiVars>>

\* let source_app = current_focus_app_name();
\* let icon_path = current_focus_app_icon_path()...;
\* Both look at the frontmost application; they are taken in one step.
save_focus_context(current_focus_app) ==
  /\ pc_m = "focus_context"
  /\ m_ctx' = [source_app |-> current_focus_app,
               icon_path |-> IconPathOf(current_focus_app)]
  /\ pc_m' = "update"
  /\ UNCHANGED <<history, db_lock, IS_INTERNAL_PASTE, envVars, m_clip, m_rows, uiVars>>

\* current_focus_app_icon_path() panics: the frontmost application has no
\* icon to retain, or the icon file cannot be created or written (the
\* unwrap()s of macos.rs).  save_text / save_image holds the guard, so the
\* unwinding drops it and poisons the mutex; the monitor thread has ended.
save_focus_context_panic ==
  /\ pc_m = "focus_context"
  /\ db_lock' = "poisoned"
  /\ pc_m' = "panicked"
  /\ m_clip' = NoContent
  /\ UNCHANGED <<history, IS_INTERNAL_PASTE, envVars, m_ctx, m_rows, uiVars>>

\* Variant: the content type is written as the clipboard format names it.
SaveTypeKind(clip) == clip.kind

\* The content type and the content value the save function binds.
SaveType(clip) == IF clip.kind = "text" THEN "TEXT" ELSE "IMAGE"
SaveContent(clip) ==
  IF clip.kind = "text" THEN SqlText(clip.text) ELSE SqlBlob(PngBytes(clip.image))

\* The UPDATE statement of save_text / save_image.
save_update ==
  /\ pc_m = "update"
  /\ history' = UpsertUpdate(history, SaveType(m_clip), SaveContent(m_clip),
                             m_ctx.source_app, m_ctx.icon_path, now)
  /\ m_rows' = Cardinality(MatchIdentity(history, SaveType(m_clip),
                                         SaveContent(m_clip)))
  /\ pc_m' = "insert"
  /\ UNCHANGED <<db_lock, IS_INTERNAL_PASTE, envVars, m_clip, m_ctx, uiVars>>

\* Variant: the table keeps the latest capture only -- the rows that were
\* not written in this second are deleted before the INSERT.
save_insert_Prune ==
  /\ pc_m = "insert"
  /\ history' = IF m_rows = 0
                  THEN UpsertInsert({r \in history : r.timestamp = now},
                                    SaveType(m_clip), SaveContent(m_clip),
                                    m_ctx.source_app, m_ctx.icon_path, now)
                  ELSE history
  /\ db_lock' = "none"
  /\ pc_m' = "wait"
  /\ m_clip' = NoContent
  /\ m_ctx' = NoCtx
  /\ m_rows' = 0
  /\ UNCHANGED <<IS_INTERNAL_PASTE, envVars, uiVars>>

\* if rows == 0 { INSERT }; Ok(()) -- the guard is dropped and the handler
\* returns CallbackResult::Next.
save_insert ==
  /\ pc_m = "insert"
  /\ history' = IF m_rows = 0
                  THEN UpsertInsert(history, SaveType(m_clip), SaveContent(m_clip),
                                    m_ctx.source_app, m_ctx.icon_path, now)
                  ELSE history
  /\ db_lock' = "none"
  /\ pc_m' = "wait"
  /\ m_clip' = NoContent
  /\ m_ctx' = NoCtx
  /\ m_rows' = 0
  /\ UNCHANGED <<IS_INTERNAL_PASTE, envVars, uiVars>>

\* save_text / save_image return Err from a statement's `?': the guard is
\* dropped, the statement has changed nothing, and the handler's unwrap()
\* panics.  The panic unwinds through Master::run and listen(): the monitor
\* thread has ended.
save_Err ==
  /\ history' = history
  /\ db_lock' = "none"
  /\ pc_m' = "panicked"
  /\ m_clip' = NoContent
  /\ m_ctx' = NoCtx
  /\ m_rows' = 0
  /\ UNCHANGED <<IS_INTERNAL_PASTE, envVars, uiVars>>

\* The UPDATE statement fails (the database file cannot be written).
save_update_Err ==
  /\ pc_m = "update"
  /\ save_Err

\* The INSERT statement fails.
save_insert_Err ==
  /\ pc_m = "insert"
  /\ m_rows = 0
  /\ save_Err

(***************************************************************************)
(* UI context: the public store functions and do_paste.                    *)
(***************************************************************************)
\* A caller enters one of the public store functions.
ui_call(req) ==
  /\ pc_u = "idle"
  /\ pc_u' = "db_conn"
  /\ u_req' = req
  /\ UNCHANGED <<history, db_lock, IS_INTERNAL_PASTE, envVars, monVars, u_item,
                 u_result, u_ret, rx>>

\* A store function on a connection that no mutex guards.
ui_db_conn_NoMutex ==
  /\ pc_u = "db_conn"
  /\ db_lock' = "ui"
  /\ pc_u' = "exec"
  /\ UNCHANGED <<history, IS_INTERNAL_PASTE, envVars, monVars, u_req, u_item,
                 u_result, u_ret, rx>>

\* let conn = db_conn();
ui_db_conn ==
  /\ pc_u = "db_conn"
  /\ db_lock = "none"
  /\ db_lock' = "ui"
  /\ pc_u' = "exec"
  /\ UNCHANGED <<history, IS_INTERNAL_PASTE, envVars, monVars, u_req, u_item,
                 u_result, u_ret, rx>>

\* db_conn() on a poisoned mutex: lock() returns Err and unwrap() panics in
\* the caller.
ui_db_conn_poisoned ==
  /\ pc_u = "db_conn"
  /\ db_lock = "poisoned"
  /\ pc_u' = "panicked"
  /\ u_req' = NoReq
  /\ u_item' = NoItem
  /\ UNCHANGED <<history, db_lock, IS_INTERNAL_PASTE, envVars, monVars, u_result,
                 u_ret, rx>>

\* The statement of a store function has run; the function returns and the
\* guard is dropped.
ui_return(result) ==
  /\ db_lock' = "none"
  /\ pc_u' = "ret"
  /\ u_result' = result
  /\ u_ret' = "Ok"
  /\ UNCHANGED <<IS_INTERNAL_PASTE, envVars, monVars, u_req, u_item, rx>>

get_all_records ==
  /\ pc_u = "exec"
  /\ u_req.op = "get_all_records"
  /\ ui_return(SelectAll(history))
  /\ UNCHANGED history

get_recent_records ==
  /\ pc_u = "exec"
  /\ u_req.op = "get_recent_records"
  /\ ui_return(SelectRecent(history, u_req.limit))
  /\ UNCHANGED history

search_text ==
  /\ pc_u = "exec"
  /\ u_req.op = "search_text"
  /\ ui_return(SelectSearch(history, u_req.term))
  /\ UNCHANGED history

\* Variant: the UPDATE of update_timestamp without its WHERE clause.
update_timestamp_NoWhere ==
  /\ pc_u = "exec"
  /\ u_req.op = "update_timestamp"
  /\ history' = {[r EXCEPT !.timestamp = now] : r \in history}
  /\ ui_return(<<>>)

\* conn.execute(UPDATE ..)?; Ok(()) -- the number of affected rows is dropped.
update_timestamp ==
  /\ pc_u = "exec"
  /\ u_req.op = "update_timestamp"
  /\ history' = TouchUpdate(history, u_req.id, now)
  /\ ui_return(<<>>)

\* The caller has taken the returned value and goes on.
ui_continue ==
  /\ pc_u = "ret"
  /\ pc_u' = "idle"
  /\ u_req' = NoReq
  /\ u_result' = <<>>
  /\ u_item' = NoItem
  /\ u_ret' = "none"
  /\ UNCHANGED <<history, db_lock, IS_INTERNAL_PASTE, envVars, monVars, rx>>

\* clipboard.set_image(b64_to_img_data(&item.content)): the raw image whose
\* PNG encoding is the stored content.
Decodable(content) == \E img \in RawImages : Base64(PngBytes(img)) = content
b64_to_img_data(content) ==
  CHOOSE img \in RawImages : Base64(PngBytes(img)) = content

\* Items the window can offer for replay: the records of the store.  do_paste
\* uses the id, the content type and the content of the item.
ReplayItem(r) ==
  [id |-> row_to_item(r).id, content_type |-> row_to_item(r).content_type,
   content |-> row_to_item(r).content]
Replayable ==
  {ReplayItem(r) : r \in {q \in history :
      row_to_item(q).content_type = "TEXT" \/ Decodable(row_to_item(q).content)}}

\* do_paste(item): IS_INTERNAL_PASTE.store(true)
do_paste(item) ==
  /\ pc_u = "idle"
  /\ IS_INTERNAL_PASTE' = TRUE
  /\ pc_u' = "set_clipboard"
  /\ u_item' = item
  /\ UNCHANGED <<history, db_lock, envVars, monVars, u_req, u_result, u_ret, rx>>

\* clipboard.set_text(..) / clipboard.set_image(..), then
\* update_timestamp(item.id) is entered.
do_paste_set_clipboard ==
  /\ pc_u = "set_clipboard"
  /\ clipboard' = IF u_item.content_type = "TEXT"
                    THEN TextClip(u_item.content)
                    ELSE ImageClip(b64_to_img_data(u_item.content))
  /\ changed' = TRUE
  /\ change_by' = change_by \cup {"do_paste"}
  /\ u_req' = [op |-> "update_timestamp", id |-> u_item.id]
  /\ pc_u' = "db_conn"
  /\ UNCHANGED <<history, db_lock, IS_INTERNAL_PASTE, now, monVars, u_item, u_result,
                 u_ret, rx>>

(***************************************************************************)
(* Specification: the monitor thread, the UI context and the environment   *)
(* interleave step by step.                                                *)
(***************************************************************************)
MonitorStep ==
  \/ save_db_conn
  \/ save_update
  \/ save_insert
  \/ save_update_Err
  \/ save_insert_Err
  \/ read_clipboard
  \/ read_clipboard_Err
  \/ save_focus_context_panic

UiStep ==
  \/ ui_db_conn
  \/ ui_db_conn_poisoned
  \/ get_all_records
  \/ get_recent_records
  \/ search_text
  \/ update_timestamp
  \/ ui_continue
  \/ do_paste_set_clipboard

Next ==
  \/ \E c \in ClipContents : Copy(c)
  \/ Tick
  \/ on_clipboard_change
  \/ \E app \in HandlerFocusApps : check_ignored_apps(app)
  \/ \E app \in FocusApps : save_focus_context(app)
  \/ MonitorStep
  \/ \E req \in UiRequests : ui_call(req)
  \/ \E item \in Replayable : do_paste(item)
  \/ UiStep

Spec == Init /\ [][Next]_vars

(***************************************************************************)
(* Fair specification: a handler run or a store call that can go on does   *)
(* go on -- the monitor is a thread of its own and the UI tasks run on the *)
(* runtime's executor.  Copies, replays, store calls and the clock are not *)
(* forced.                                                                 *)
(***************************************************************************)
MonitorNext ==
  \/ on_clipboard_change
  \/ \E app \in HandlerFocusApps : check_ignored_apps(app)
  \/ \E app \in FocusApps : save_focus_context(app)
  \/ MonitorStep

SpecFair == Spec /\ WF_vars(MonitorNext) /\ WF_vars(UiStep)

\* The same with a mutex that does not starve a waiter: a caller that finds
\* the mutex free again and again does get it.
SpecFairLock == SpecFair /\ SF_vars(save_db_conn) /\ SF_vars(ui_db_conn)

(***************************************************************************)
(* Serial specification: the same steps over more clipboard contents and   *)
(* more arguments, scheduled so that a handler run or a store call, once   *)
(* begun, ends before the other context or the environment moves.          *)
(***************************************************************************)
Quiet == pc_m \in {"wait", "panicked"} /\ pc_u = "idle"

NextSerial ==
  \/ Quiet /\ \E c \in ClipContentsSerial : Copy(c)
  \/ Quiet /\ Tick
  \/ Quiet /\ on_clipboard_change
  \/ \E app \in HandlerFocusAppsSerial : check_ignored_apps(app)
  \/ \E app \in FocusAppsSerial : save_focus_context(app)
  \/ MonitorStep
  \/ Quiet /\ \E req \in UiRequestsSerial : ui_call(req)
  \/ Quiet /\ \E item \in Replayable : do_paste(item)
  \/ UiStep

SpecSerial == Init /\ [][NextSerial]_vars

(***************************************************************************)
(* Capture specification: the serial schedule over the clipboard contents  *)
(* that exercise the handler's choice between text and image and the       *)
(* images that cannot be encoded.                                          *)
(***************************************************************************)
NextCapture ==
  \/ Quiet /\ \E c \in ClipContentsCapture : Copy(c)
  \/ Quiet /\ Tick
  \/ Quiet /\ on_clipboard_change
  \/ \E app \in HandlerFocusAppsSerial : check_ignored_apps(app)
  \/ \E app \in FocusAppsSerial : save_focus_context(app)
  \/ MonitorStep
  \/ Quiet /\ \E req \in UiRequests : ui_call(req)
  \/ Quiet /\ \E item \in Replayable : do_paste(item)
  \/ UiStep

SpecCapture == Init /\ [][NextCapture]_vars

(***************************************************************************)
(* Properties.                                                             *)
(***************************************************************************)
\* A row carries the identity (ctype, content).
HasIdentity(r, ctype, content) == r.content_type = ctype /\ r.content = content

\* The monitor is inside save_text / save_image and its UPDATE has run.
AfterUpdate == pc_m = "insert"

\* The UPDATE step and the INSERT step of save_text / save_image.
UpdateStep == pc_m = "update" /\ pc_m' = "insert"
InsertStep == pc_m = "insert" /\ pc_m' = "wait"

\* The UI context is back from the store function `op'.
Returned(op) == pc_u = "ret" /\ u_req.op = op

\* C1: identity uniqueness -- in every reachable state, under every
\* interleaving of captures, touches and queries, no two rows of the store
\* have the same (content_type, content).
C1_IdentityUniqueness ==
  \A r1 \in history : \A r2 \in history :
    HasIdentity(r1, r2.content_type, r2.content) => r1 = r2

\* C1 witness: a TEXT row and an IMAGE row are stored and a capture has just
\* found its identity already present.
C1_Witness ==
  /\ AfterUpdate
  /\ m_rows > 0
  /\ \E r \in history : r.content_type = "TEXT"
  /\ \E r \in history : r.content_type = "IMAGE"

\* C2: a capture of an identity that already has a row adds no row; the row
\* keeps its id and takes source_app, icon_path and timestamp of this capture.
C2_UpsertExisting ==
  [][/\ UpdateStep /\ (\E r \in history :
                          HasIdentity(r, SaveType(m_clip), SaveContent(m_clip)))
        => /\ Cardinality(history') = Cardinality(history)
           /\ \A r \in history :
                IF HasIdentity(r, SaveType(m_clip), SaveContent(m_clip))
                  THEN [r EXCEPT !.source_app = m_ctx.source_app,
                                 !.icon_path = m_ctx.icon_path,
                                 !.timestamp = now] \in history'
                  ELSE r \in history'
     /\ InsertStep /\ m_rows > 0 => history' = history]_vars

\* C2 witness: the identity was first captured in Code at second 0 and has
\* now been captured again in Notes at second 1; its row is still row 1.
C2_Witness ==
  /\ AfterUpdate
  /\ m_rows = 1
  /\ m_ctx.source_app = Notes
  /\ now = 1
  /\ \E r \in history :
       /\ HasIdentity(r, SaveType(m_clip), SaveContent(m_clip))
       /\ r.id = 1
       /\ r.source_app = Notes
       /\ r.icon_path = IconPathOf(Notes)
       /\ r.timestamp = 1
  /\ \E r \in history : r.id = 2 /\ r.source_app = Code /\ r.timestamp = 0

\* C3: ids are unique, no step removes an id, a step adds at most one id and
\* a new id is greater than every id already assigned; a capture of an
\* identity that has no row adds exactly one row, with that identity.
C3_FreshIds ==
  [][/\ Cardinality({r.id : r \in history'}) = Cardinality(history')
     /\ {r.id : r \in history} \subseteq {r.id : r \in history'}
     /\ Cardinality({r.id : r \in history'} \ {r.id : r \in history}) <= 1
     /\ \A r \in history' : \A q \in history :
          r.id \notin {x.id : x \in history} => r.id > q.id
     /\ InsertStep /\ m_rows = 0
          => /\ Cardinality(history') = Cardinality(history) + 1
             /\ \E r \in history' :
                  /\ r.id \notin {x.id : x \in history}
                  /\ HasIdentity(r, SaveType(m_clip), SaveContent(m_clip))]_vars

\* C3 witness: two identities have been inserted, with the ids 1 and 2.
C3_Witness ==
  /\ pc_m = "wait"
  /\ {r.id : r \in history} = {1, 2}
  /\ Cardinality(history) = 2

\* C4: update_timestamp(id) for an id that has a row changes nothing of that
\* row but its timestamp, and the new timestamp is not before the old one.
C4_TouchPreservesIdentity ==
  [][pc_u = "exec" /\ u_req.op = "update_timestamp" /\ pc_u' = "ret"
       => \A r \in history :
            r.id = u_req.id
              => \E t \in 0 .. MaxTime :
                   /\ t >= r.timestamp
                   /\ [r EXCEPT !.timestamp = t] \in history'
                   /\ \A q \in history' : q.id = r.id
                        => q = [r EXCEPT !.timestamp = t]]_vars

\* C4 witness: row 1 was written at second 0 and update_timestamp(1) has
\* returned at second 1 with the row stamped 1.
C4_Witness ==
  /\ Returned("update_timestamp")
  /\ u_req.id = 1
  /\ db_lock = "none"
  /\ \E r \in history : r.id = 1 /\ r.timestamp = 1
  /\ \E r \in history : r.id = 2 /\ r.timestamp = 0

\* C5: update_timestamp(id) for an id that no row has returns a failure.
C5_TouchMissingFails ==
  Returned("update_timestamp") /\ u_req.id \notin {r.id : r \in history}
    => u_ret = "Err"

\* C6: in the records get_all_records, get_recent_records and search_text
\* return, a record with a greater timestamp comes before a record with a
\* smaller one.
C6_RecencyOrdering ==
  Returned("get_all_records") \/ Returned("get_recent_records")
      \/ Returned("search_text")
    => \A i \in 1 .. Len(u_result) : \A j \in 1 .. Len(u_result) :
         u_result[i].timestamp > u_result[j].timestamp => i < j

\* C6 witness: search_text has returned two records, the later-inserted and
\* more recent one first.
C6_Witness ==
  /\ Returned("search_text")
  /\ Len(u_result) = 2
  /\ u_result[1].timestamp > u_result[2].timestamp
  /\ u_result[1].id > u_result[2].id

\* C7: get_recent_records(limit) returns no record when limit <= 0.
C7_NonPositiveLimitEmpty ==
  Returned("get_recent_records") /\ u_req.limit <= 0 => u_result = <<>>

\* C8: for limit > 0, get_recent_records(limit) returns min(limit, n) records
\* of an n-row store, and they are the first min(limit, n) records
\* get_all_records returns in that state.
C8_RecentIsPrefixOfAll ==
  Returned("get_recent_records") /\ u_req.limit > 0
    => /\ Len(u_result) = Min(u_req.limit, Cardinality(history))
       /\ u_result = SubSeq(SelectAll(history), 1, Len(u_result))
       /\ \A r \in history : \A i \in 1 .. Len(u_result) :
            r.timestamp > u_result[i].timestamp
              => \E j \in 1 .. Len(u_result) : u_result[j].id = r.id

\* C8 witness: get_recent_records(1) has returned one record of a store that
\* holds more; the record is not the first one inserted.
C8_Witness ==
  /\ Returned("get_recent_records")
  /\ u_req.limit = 1
  /\ Cardinality(history) >= 2
  /\ Len(u_result) = 1
  /\ u_result[1].id > 1

\* C9: search_text returns no IMAGE record.
C9_SearchNoImage ==
  Returned("search_text")
    => \A i \in 1 .. Len(u_result) : u_result[i].content_type # "IMAGE"

\* C9 witness: search_text has returned for a term that occurs in the bytes
\* of a stored IMAGE row.
C9_Witness ==
  /\ Returned("search_text")
  /\ \E r \in history :
       r.content_type = "IMAGE" /\ Contains(r.content.v, u_req.term)

\* Substring test that ignores ASCII case.
ContainsNoCase(s, pat) ==
  \E i \in 1 .. (Len(s) - Len(pat) + 1) :
    \A k \in 1 .. Len(pat) : Lower(s[i + k - 1]) = Lower(pat[k])

\* C10: search_text(term) returns exactly the TEXT records whose content
\* contains term as a substring (ASCII case ignored), also when term contains
\* `%' or `_'.
C10_SearchExact ==
  Returned("search_text")
    => {u_result[i].id : i \in 1 .. Len(u_result)}
         = {r.id : r \in {q \in history :
                     q.content_type = "TEXT"
                       /\ ContainsNoCase(q.content.v, u_req.term)}}

\* The monitor enters the handler: it takes the pending clipboard change.
HandlerEntry == changed /\ ~changed'

\* C11: loop suppression -- while the flag is set it falls only in the step
\* in which the handler takes the pending clipboard change, and that step is
\* the whole handler run: it returns at once, the flag is false, no row is
\* inserted or updated, and neither the focused application nor the clipboard
\* content is read (the monitor takes no lock and fills none of its locals).
C11_LoopSuppression ==
  [][IS_INTERNAL_PASTE /\ (HandlerEntry \/ ~IS_INTERNAL_PASTE')
       => /\ HandlerEntry
          /\ ~IS_INTERNAL_PASTE'
          /\ pc_m = "wait" /\ pc_m' = "wait"
          /\ history' = history
          /\ db_lock' = db_lock
          /\ m_clip' = m_clip /\ m_ctx' = m_ctx /\ m_rows' = m_rows]_vars

\* C11 witness: do_paste has set the flag and written a stored item to the
\* clipboard, no one else has written since, and the monitor is about to
\* handle that change.
C11_Witness ==
  /\ IS_INTERNAL_PASTE
  /\ changed
  /\ change_by = {"do_paste"}
  /\ pc_m = "wait"
  /\ pc_u = "db_conn"
  /\ u_req.op = "update_timestamp"
  /\ u_item # NoItem
  /\ \E r \in history :
       /\ r.id = u_req.id
       /\ clipboard.kind = "text"
       /\ HasIdentity(r, "TEXT", SqlText(clipboard.text))

\* C12: the latch is consumed exactly once per replay -- whenever the handler
\* takes a pending change, it finds the flag set exactly when that change is
\* the clipboard write of a replay and nothing else: no change the user made
\* is dropped by the latch, and no replayed write goes on to be captured.
C12_LatchOncePerReplay ==
  [][HandlerEntry
       => /\ "user" \in change_by => ~IS_INTERNAL_PASTE
          /\ change_by = {"do_paste"} => IS_INTERNAL_PASTE]_vars

\* The name of an application has a deny-listed name inside it.
DenyListed(app) ==
  \/ Contains(app, Passwords)
  \/ Contains(app, KeychainAccess)
  \/ Contains(app, Bitwarden)

\* C13: sensitive-source suppression -- when the handler finds a focused
\* application whose name contains Passwords, Keychain Access or Bitwarden,
\* the handler run ends there: the monitor is back waiting, holds no lock,
\* and no row was inserted and no field of a row has changed.
C13_SensitiveSuppressed ==
  [][pc_m = "focus"
       => \A app \in HandlerFocusApps \cup HandlerFocusAppsSerial :
            DenyListed(app) /\ check_ignored_apps(app)
              => /\ pc_m' = "wait"
                 /\ history' = history
                 /\ db_lock' = db_lock
                 /\ m_clip' = NoContent]_vars

\* C13 witness: the user has copied a text, the handler has run for that
\* change and has returned, and the store is still empty: nothing was ever
\* captured or replayed, as after a run that ended at the deny-list.
C13_Witness ==
  /\ pc_m = "wait"
  /\ ~changed
  /\ ~IS_INTERNAL_PASTE
  /\ clipboard.kind = "text"
  /\ history = {}

\* The name of an application has a deny-listed name inside it, in some
\* letter case.
DenyListedNoCase(app) ==
  \/ ContainsNoCase(app, Passwords)
  \/ ContainsNoCase(app, KeychainAccess)
  \/ ContainsNoCase(app, Bitwarden)

\* C14: the deny-list match ignores letter case -- when the handler finds a
\* focused application whose name contains a deny-listed name in any letter
\* case, the event is discarded: the handler run ends there.
C14_DenyListNoCase ==
  [][pc_m = "focus"
       => \A app \in HandlerFocusApps \cup HandlerFocusAppsSerial :
            DenyListedNoCase(app) /\ check_ignored_apps(app)
              => pc_m' = "wait" /\ history' = history]_vars

\* C15: a failed store write does not stop the monitor -- when save_text or
\* save_image returns an error, the handler run ends with the monitor waiting
\* for the next clipboard change, so that a later change is handled.
C15_MonitorSurvivesWriteFailure ==
  [][(pc_m = "update" \/ pc_m = "insert") /\ (save_update_Err \/ save_insert_Err)
       => pc_m' = "wait"]_vars

\* save_text / save_image has updated the row of the captured identity: the
\* upsert has succeeded and the function is about to return Ok.
UpsertDone == pc_m = "insert" /\ m_rows > 0

\* C16: history-changed notification -- a successful upsert of the monitor
\* is followed by a signal in the notification channel, and a handler run
\* that ends at the flag or at the deny-list puts no signal there.
C16_HistoryChangedSignal ==
  /\ UpsertDone ~> rx > 0
  /\ [][(pc_m = "wait" \/ pc_m = "focus") /\ pc_m' = "wait" => rx' = rx]_vars

\* The monitor is inside save_text / save_image, between db_conn() and the
\* return; the UI context is inside a public store function likewise.
MonitorInStore == pc_m \in {"focus_context", "update", "insert"}
UiInStore == pc_u = "exec"

\* C17: mutual exclusion of store operations -- the monitor's upsert and a
\* store call of the UI context are never inside the store at once, and each
\* holds the lock for as long as it is inside; the lock is held by no one
\* else.
C17_MutualExclusion ==
  /\ ~(MonitorInStore /\ UiInStore)
  /\ MonitorInStore <=> db_lock = "monitor"
  /\ UiInStore <=> db_lock = "ui"

\* C17 witness: the UI context is inside a store function while the monitor
\* has content to save and waits in db_conn() for the lock.
C17_Witness ==
  /\ UiInStore
  /\ db_lock = "ui"
  /\ pc_m = "db_conn"
  /\ m_clip.kind # "none"

\* The statement of a query or of update_timestamp runs.
UiStatementStep == pc_u = "exec" /\ pc_u' = "ret"

\* C18: upsert atomicity towards readers and touch -- the statement of a
\* query or of update_timestamp never runs while the monitor is inside
\* save_text / save_image, in particular not between its UPDATE and its
\* INSERT; the statement works on the store as whole upserts have left it,
\* and a query returns the records of exactly that store.
C18_UpsertAtomic ==
  [][UiStatementStep
       => /\ pc_m # "insert"
          /\ ~MonitorInStore
          /\ pc_m' = pc_m
          /\ u_req.op = "get_all_records" => u_result' = SelectAll(history)
          /\ u_req.op = "get_recent_records"
               => u_result' = SelectRecent(history, u_req.limit)
          /\ u_req.op = "search_text"
               => u_result' = SelectSearch(history, u_req.term)]_vars

\* C18 witness: a query has been called and waits for the lock while the
\* monitor is between the UPDATE, which matched no row, and the INSERT.
C18_Witness ==
  /\ pc_m = "insert"
  /\ m_rows = 0
  /\ pc_u = "db_conn"
  /\ u_req.op = "get_all_records"
  /\ history # {}

\* C19: latest capture is first -- when save_text / save_image returns Ok,
\* get_recent_records(1) on the store as the capture has left it returns
\* exactly the record of the captured identity, whatever the timestamps of
\* the other rows.
C19_LatestCaptureFirst ==
  [][InsertStep
       => \E r \in history' :
            /\ HasIdentity(r, SaveType(m_clip), SaveContent(m_clip))
            /\ SelectRecent(history', 1) = <<row_to_item(r)>>]_vars

\* C20: replay of a history item -- the update_timestamp(i) that do_paste
\* calls for a stored item changes nothing but the timestamp of row i and
\* leaves row i the first record of get_all_records, and the handler run for
\* the clipboard write of the replay changes no row.
C20_Replay ==
  [][/\ UiStatementStep /\ u_req.op = "update_timestamp" /\ u_item # NoItem
          => \A r \in history :
               r.id = u_req.id
                 => /\ \E t \in 0 .. MaxTime :
                         history' = (history \ {r})
                                      \cup {[r EXCEPT !.timestamp = t]}
                    /\ SelectAll(history')[1].id = r.id
     /\ HandlerEntry /\ change_by = {"do_paste"}
          => pc_m' = "wait" /\ history' = history]_vars

\* C21: content extraction order -- the handler run that reads the clipboard
\* goes on to save the text when the clipboard offers a text, the image only
\* when it offers no text, and otherwise (also when the clipboard cannot be
\* opened or read) ends without a store mutation and without an error: the
\* monitor waits for the next change.
C21_ExtractionOrder ==
  [][pc_m = "read" /\ pc_m' # "read"
       => \/ /\ pc_m' = "db_conn"
             /\ HasText(clipboard) \/ HasImage(clipboard)
             /\ HasText(clipboard) => m_clip' = TextClip(clipboard.text)
             /\ ~HasText(clipboard) => m_clip' = ImageClip(clipboard.image)
             /\ history' = history
          \/ /\ pc_m' = "wait"
             /\ m_clip' = NoContent
             /\ history' = history
             /\ db_lock' = db_lock]_vars

\* C21 witness: the clipboard offers the text "c" together with an image,
\* the handler has run for it, and the store holds the text and no image.
C21_Witness ==
  /\ clipboard.kind = "both"
  /\ pc_m = "wait"
  /\ ~changed
  /\ \E r \in history : HasIdentity(r, "TEXT", SqlText(clipboard.text))
  /\ \A r \in history : r.content_type = "TEXT"

\* The monitor is in its loop: it waits for a change or runs the handler.
MonitorRuns ==
  pc_m \in {"wait", "focus", "read", "db_conn", "focus_context", "update", "insert"}

\* C22: the monitor never stops by its own decision -- a step of the monitor
\* leaves it in its loop, on the return at the flag, at the deny-list, after
\* an unreadable clipboard and after a capture alike; the one way out of the
\* loop is a panic inside save_text / save_image.
C22_MonitorNeverStops ==
  [][pc_m' # pc_m /\ MonitorRuns
       => \/ MonitorRuns'
          \/ MonitorInStore /\ pc_m' = "panicked"]_vars

\* C22 witness: the handler has run for two captures and has returned; a
\* further clipboard change is pending and the monitor waits for it.
C22_Witness ==
  /\ pc_m = "wait"
  /\ changed
  /\ ~IS_INTERNAL_PASTE
  /\ pc_u = "idle"
  /\ Cardinality(history) = 2

\* The (id, content_type, content) triples of a table.
Triples(tbl) ==
  {[id |-> r.id, content_type |-> r.content_type, content |-> r.content] : r \in tbl}

\* C23: no deletion -- every step keeps every (id, content_type, content)
\* triple of the store: a row once present stays, with its id, content type
\* and content.
C23_NoDeletion ==
  [][Triples(history) \subseteq Triples(history')]_vars

\* C23 witness: captures and touches have run into second 1; two rows are
\* stored, both stamped in that second, and row 1 is still the image row.
C23_Witness ==
  /\ pc_m = "wait"
  /\ now = 1
  /\ Cardinality(history) = 2
  /\ \A r \in history : r.timestamp = 1
  /\ \E r \in history : r.id = 1 /\ r.content_type = "IMAGE"
  /\ pc_u = "idle"

\* C24: icon extraction failure does not lose the capture -- the step of
\* save_text / save_image that looks up the focused application and its icon
\* always goes on to the UPDATE, with or without an icon, and a caller that
\* asks for the store connection always gets it: no store function fails at
\* db_conn().
C24_IconFailureAbsorbed ==
  [][/\ pc_m = "focus_context" /\ pc_m' # pc_m => pc_m' = "update"
     /\ pc_u = "db_conn" /\ pc_u' # pc_u => pc_u' = "exec"]_vars

\* C25: lock release and progress -- a store operation that leaves the store
\* leaves the mutex unlocked, and a caller that waits in db_conn(), the UI
\* context or the monitor, eventually is inside its store operation.
C25_LockProgress ==
  /\ [][(MonitorInStore /\ ~MonitorInStore') \/ (UiInStore /\ ~UiInStore')
          => db_lock' \notin {"monitor", "ui"}]_vars
  /\ pc_u = "db_conn" ~> UiInStore
  /\ pc_m = "db_conn" ~> MonitorInStore

\* The raw image cannot be encoded: its buffer is too short for its width
\* and height, or it has no pixels.
Unencodable(img) ==
  \/ Len(img.bytes) < img.width * img.height * 4
  \/ img.width = 0
  \/ img.height = 0

EmptyImageRows(tbl) == {r \in tbl : HasIdentity(r, "IMAGE", SqlBlob(<<>>))}

\* C26: image encoding failure is absorbed -- save_image for an image that
\* cannot be encoded upserts the identity (IMAGE, empty): its UPDATE stamps
\* the row of that identity if there is one, its INSERT adds that row
\* otherwise, and the store never holds two such rows.
C26_EncodingFailureAbsorbed ==
  [][/\ UpdateStep /\ m_clip.kind = "image" /\ Unencodable(m_clip.image)
          => /\ m_rows' = Cardinality(EmptyImageRows(history))
             /\ \A r \in EmptyImageRows(history) :
                  [r EXCEPT !.source_app = m_ctx.source_app,
                            !.icon_path = m_ctx.icon_path,
                            !.timestamp = now] \in history'
     /\ InsertStep /\ m_clip.kind = "image" /\ Unencodable(m_clip.image)
          => /\ Cardinality(EmptyImageRows(history')) = 1
             /\ m_rows = 0 => EmptyImageRows(history) = {}
                                /\ Cardinality(history') = Cardinality(history) + 1
     /\ Cardinality(EmptyImageRows(history')) <= 1]_vars

\* C26 witness: the image with the short buffer is being saved in second 1
\* and its UPDATE has found the row (IMAGE, empty) that an earlier failed
\* image left in second 0.
C26_Witness ==
  /\ AfterUpdate
  /\ m_clip = ImageClip(ShortImage)
  /\ m_rows = 1
  /\ now = 1
  /\ \E r \in EmptyImageRows(history) : r.id = 1 /\ r.timestamp = 1
  /\ Cardinality(history) = 1

\* C27: every row's content_type is 'TEXT' or 'IMAGE', and every record a
\* query has returned carries one of the two content types: row_to_item has
\* not run into its unreachable!() branch.
C27_ContentTypeClosed ==
  /\ \A r \in history : r.content_type \in {"TEXT", "IMAGE"}
  /\ \A i \in 1 .. Len(u_result) : u_result[i].content_type \in {"TEXT", "IMAGE"}

\* C27 witness: get_all_records has returned a TEXT record and an IMAGE
\* record.
C27_Witness ==
  /\ Returned("get_all_records")
  /\ Len(u_result) = 2
  /\ {u_result[1].content_type, u_result[2].content_type} = {"TEXT", "IMAGE"}

\* C28: no record is attributed to a sensitive source -- no row's source_app
\* contains Passwords, Keychain Access or Bitwarden.
C28_NoSensitiveSource ==
  \A r \in history : ~DenyListed(r.source_app)

\* The rows of the table before a step that the step has changed or dropped.
ChangedRows == history \ history'

\* C29: frame of the store operations -- the UPDATE and the INSERT of one
\* upsert together change or add at most one row, update_timestamp changes
\* at most one row and adds none, each leaves every other row as it was, and
\* a query changes no row and does not change the internal-write flag.
C29_Frame ==
  [][/\ UpdateStep
          => /\ Cardinality(ChangedRows) <= 1
             /\ Cardinality(history') = Cardinality(history)
             /\ \A r \in ChangedRows :
                  HasIdentity(r, SaveType(m_clip), SaveContent(m_clip))
     /\ InsertStep
          => /\ ChangedRows = {}
             /\ Cardinality(history' \ history) = (IF m_rows = 0 THEN 1 ELSE 0)
     /\ UiStatementStep /\ u_req.op = "update_timestamp"
          => /\ Cardinality(ChangedRows) <= 1
             /\ Cardinality(history') = Cardinality(history)
             /\ \A r \in ChangedRows : r.id = u_req.id
     /\ UiStatementStep /\ u_req.op # "update_timestamp"
          => /\ history' = history
             /\ IS_INTERNAL_PASTE' = IS_INTERNAL_PASTE]_vars

\* C29 witness: update_timestamp(2) has returned in second 1 with row 2
\* stamped anew, and the rows 1 and 3 still carry the stamp of second 0.
C29_Witness ==
  /\ Returned("update_timestamp")
  /\ u_req.id = 2
  /\ Cardinality(history) = 3
  /\ \E r \in history : r.id = 2 /\ r.timestamp = 1
  /\ \A r \in history : r.id # 2 => r.timestamp = 0

====
